---- MODULE Spec2Model ----
(***************************************************************************)
(* Bias-aware temperature control (adaptive_fair_thermal_comfort.ipynb):   *)
(* the thermal comfort model, the environment, the tabular Q-learning      *)
(* agent with its three reward variants, train_agent,                      *)
(* evaluate_agent_comprehensive and its summary, the relative fairness     *)
(* improvement of the analysis, and the trainings of a seeded process.     *)
(*                                                                         *)
(* Numbers.  The program computes with floats; the model computes with     *)
(* exact rationals, each quantity an integer count of a fixed unit:        *)
(*   temperature        1/TScale degree      (22.0 is 220)                 *)
(*   comfort score      1/CScale             (1.0 is 2000, 0.36 is 720)    *)
(*   reward             1/RScale             (1.0 is 20000)                *)
(*   Q-value            1/QScale                                           *)
(*   epsilon            1/EScale             (0.3 is 960, 0.01 is 32)      *)
(*   sensation vote before rounding  1/VScale                              *)
(* Every product and quotient of the code is exact in these units for the  *)
(* inputs the model draws, so no rounding is introduced by the model.      *)
(***************************************************************************)
EXTENDS Integers, Sequences, FiniteSets, TLC

VARIABLES
    env,             \* the ASHRAEEnvironment in use: male_ratio, min_temp, max_temp, current_temp
    ret,             \* what the last call of the environment returned (and what it drew)
    agent,           \* the agent's fixed attributes: agent_type, trained_gender, state_bins
    epsilon,         \* agent.epsilon
    total_updates,   \* agent.total_updates
    q_table,         \* agent.q_table: state index -> action index -> Q-value
    last_learn,      \* the arguments of the last QLearningAgent.learn call
    pc,              \* where the caller is: "idle" between calls, in a loop, "eval_failed"
    loop,            \* locals of the running loop: episodes, steps, episode, step, state
    original_epsilon,\* local of evaluate_agent_comprehensive
    acc,             \* train_agent's per-episode accumulators
    metrics,         \* train_agent's metrics lists, one record per episode
    all_metrics,     \* evaluate_agent_comprehensive's per-step lists, one record per step
    probe,           \* result of the last direct discretize_state call
    results,         \* the summary evaluate_agent_comprehensive returned
    comfort_call,    \* the last direct call of a function of the comfort model
    report,          \* the fairness improvement the analysis computed, and its inputs
    rng,             \* what the global generators np.random and random will give next
    experiment       \* the trainings a process has finished: configuration, table, metrics

vars == <<env, ret, agent, epsilon, total_updates, q_table, last_learn, pc, loop,
          original_epsilon, acc, metrics, all_metrics, probe,
          results, comfort_call, report, rng, experiment>>

\* ---------------------------------------------------------------- units

TScale == 10
CScale == 2000
RScale == 20000
EScale == 3200
VScale == 1000

Abs(x) == IF x < 0 THEN -x ELSE x
Min(a, b) == IF a < b THEN a ELSE b
Max(a, b) == IF a > b THEN a ELSE b

\* np.clip(x, lo, hi) = minimum(maximum(x, lo), hi)
Clip(x, lo, hi) == Min(Max(x, lo), hi)

\* np.round of v/s: to the nearest integer, a tie going to the even one
RoundHalfEven(v, s) ==
    LET q == v \div s
        r == v - q * s
    IN  IF 2 * r < s THEN q
        ELSE IF 2 * r > s THEN q + 1
        ELSE IF q % 2 = 0 THEN q ELSE q + 1

\* ------------------------------------------------- ASHRAEThermalComfortModel

\* prefs = male_temp_preferences if gender == 'male' else female_temp_preferences
Optimal(gender) == IF gender = "male" THEN 220 ELSE 240

\* prefs['sensitivity'] * 0.4, in 1/VScale per 1/TScale degree: 0.8*0.4 and 1.2*0.4
SensitivityGain(gender) == IF gender = "male" THEN 32 ELSE 48

calculate_thermal_sensation_vote(temperature, gender, noise) ==
    LET temp_diff == temperature - Optimal(gender)
        tsv == temp_diff * SensitivityGain(gender) + noise
    IN  Clip(RoundHalfEven(tsv, VScale), -3, 3)

\* brackets whose third slope is 0.25 instead of 0.15
ComfortBaseSteep(temp_diff) ==
    IF temp_diff <= 10 THEN CScale - temp_diff * 40
    ELSE IF temp_diff <= 20 THEN 1600 - (temp_diff - 10) * 80
    ELSE IF temp_diff <= 40 THEN 800 - (temp_diff - 20) * 50
    ELSE 200

\* the four brackets of the piecewise-linear decay (lines 47-54)
ComfortBase(temp_diff) ==
    IF temp_diff <= 10 THEN CScale - temp_diff * 40
    ELSE IF temp_diff <= 20 THEN 1600 - (temp_diff - 10) * 80
    ELSE IF temp_diff <= 40 THEN 800 - (temp_diff - 20) * 30
    ELSE 200

\* a score whose 0.9 penalty does not spare the optimum (temp_diff >= 0)
ScorePenaltyAtOptimum(temperature, gender) ==
    LET temp_diff == Abs(temperature - Optimal(gender))
        comfort == ComfortBase(temp_diff)
        penal == IF gender = "female" THEN (comfort * 9) \div 10 ELSE comfort
    IN  Max(0, Min(CScale, penal))

calculate_thermal_comfort_score(temperature, gender) ==
    LET temp_diff == Abs(temperature - Optimal(gender))
        comfort == ComfortBase(temp_diff)
        penal == IF gender = "female" /\ temp_diff > 0 THEN (comfort * 9) \div 10 ELSE comfort
    IN  Max(0, Min(CScale, penal))

calculate_thermal_preference(temperature, gender) ==
    LET temp_diff == temperature - Optimal(gender)
    IN  IF temp_diff > 10 THEN -1
        ELSE IF temp_diff < -10 THEN 1
        ELSE 0

\* ------------------------------------------------------- ASHRAEEnvironment

\* self.action_space = [-1.0, -0.5, 0.0, 0.5, 1.0]
action_space == <<-10, -5, 0, 5, 10>>

\* Indexing a Python list or a numpy axis of length n with the integer i: an
\* index in -n .. -1 counts from the end, an index outside -n .. n-1 raises
\* IndexError.
PyIndexable(n, i) == -n <= i /\ i < n
\* the position, counted from 1, that the index i reads or writes
PyPosition(n, i) == IF i >= 0 THEN i + 1 ELSE n + i + 1
PyItem(list, i) == list[PyPosition(Len(list), i)]

\* ASHRAEEnvironment(male_ratio, min_temp, max_temp); male_ratio in tenths
NewEnvironment(male_ratio, lo, hi) ==
    [male_ratio |-> male_ratio, min_temp |-> lo, max_temp |-> hi, current_temp |-> 220]

\* reset: current_temp = np.random.uniform(18.0, 28.0), the draw being `sample`
EnvAfterReset(e, sample) == [e EXCEPT !.current_temp = sample]

\* a step that does not clamp
StepTempUnclipped(e, action_idx, noise) ==
    e.current_temp + PyItem(action_space, action_idx) + noise

\* the first statements of step: the new current_temp
StepTemp(e, action_idx, noise) ==
    Clip(e.current_temp + PyItem(action_space, action_idx) + noise, e.min_temp, e.max_temp)

EnvAfterStep(e, action_idx, noise) ==
    [e EXCEPT !.current_temp = StepTemp(e, action_idx, noise)]

BlendedReward(e, t, male_comfort, female_comfort) ==
    LET blended == e.male_ratio * male_comfort + (10 - e.male_ratio) * female_comfort
    IN  IF t < 180 \/ t > 280 THEN blended - 6000 ELSE blended

\* what step returns: (current_temp, blended_reward, male_comfort, female_comfort, info)
StepReturn(e, action_idx, noise, noise_m, noise_f) ==
    LET t == EnvAfterStep(e, action_idx, noise).current_temp
        male_comfort == calculate_thermal_comfort_score(t, "male")
        female_comfort == calculate_thermal_comfort_score(t, "female")
    IN  [call |-> "step",
         action_idx |-> action_idx,
         before |-> e.current_temp,
         temperature |-> t,
         reward |-> BlendedReward(e, t, male_comfort, female_comfort),
         male_comfort |-> male_comfort,
         female_comfort |-> female_comfort,
         male_tsv |-> calculate_thermal_sensation_vote(t, "male", noise_m),
         female_tsv |-> calculate_thermal_sensation_vote(t, "female", noise_f),
         male_preference |-> calculate_thermal_preference(t, "male"),
         female_preference |-> calculate_thermal_preference(t, "female"),
         noise_m |-> noise_m,
         noise_f |-> noise_f]

NoReturn == [call |-> "none", action_idx |-> 0, before |-> 0, temperature |-> 0, reward |-> 0,
             male_comfort |-> 0, female_comfort |-> 0,
             male_tsv |-> 0, female_tsv |-> 0, male_preference |-> 0,
             female_preference |-> 0, noise_m |-> 0, noise_f |-> 0]

\* reset returns self.current_temp
ResetReturn(e, sample) ==
    [NoReturn EXCEPT !.call = "reset", !.before = e.current_temp,
                     !.temperature = EnvAfterReset(e, sample).current_temp]

\* step(action_idx) left by the IndexError of line 92, its first statement
StepRaised(e, action_idx) ==
    [NoReturn EXCEPT !.call = "IndexError", !.action_idx = action_idx,
                     !.before = e.current_temp]

\* ----------------------------------------------------------- QLearningAgent

\* Constructor arguments of the agents of the model, as rationals <<num, den>>.
\* alpha, gamma and epsilon_decay are 1/2 (the defaults 0.1, 0.9 and 0.995 need
\* more digits per update than the integers of the model hold); epsilon and
\* min_epsilon are the defaults 0.3 and 0.01, fairness_weight is the 0.6 of
\* run_full_experiment.
alpha == <<1, 2>>
gamma == <<1, 2>>
epsilon_decay == <<1, 2>>
fairness_weight == <<3, 5>>
InitialEpsilon == 960
min_epsilon == 32
action_space_size == 5

\* total_updates % 500 == 0
DecayInterval == 500

Actions == 0 .. (action_space_size - 1)
States(bins) == 0 .. (bins - 1)

\* np.zeros((state_bins, action_space_size))
ZeroTable(bins) == [s \in States(bins) |-> [a \in Actions |-> 0]]

\* a discretization that clamps neither the temperature nor the index
DiscretizeNoClip(temperature, lo, hi, bins) ==
    ((temperature - lo) * (bins - 1)) \div (hi - lo)

\* int() truncates; its argument is never negative after the first clip
discretize_state(temperature, lo, hi, bins) ==
    LET t == Clip(temperature, lo, hi)
        state == ((t - lo) * (bins - 1)) \div (hi - lo)
    IN  Clip(state, 0, bins - 1)

\* train_agent and evaluate_agent_comprehensive call discretize_state(temp):
\* min_temp and max_temp are its defaults 16.0 and 32.0
DefaultMin == 160
DefaultMax == 320
Discretize(temperature, bins) == discretize_state(temperature, DefaultMin, DefaultMax, bins)

RowMax(row) == CHOOSE v \in {row[a] : a \in Actions} : \A a \in Actions : row[a] <= v

\* the last index of the maximum
ArgMaxLast(row) == CHOOSE a \in Actions :
    /\ row[a] = RowMax(row)
    /\ \A b \in Actions : row[b] = RowMax(row) => b <= a

\* np.argmax: the first index of the maximum
ArgMax(row) == CHOOSE a \in Actions :
    /\ row[a] = RowMax(row)
    /\ \A b \in Actions : row[b] = RowMax(row) => a <= b

\* choose_action: random.random() < epsilon picks any action, otherwise argmax.
\* random.random() is in [0, 1): the test can succeed iff epsilon > 0 and can
\* fail iff epsilon < 1.
choose_action(q, eps, state) ==
    {a \in Actions : eps > 0 \/ (eps < EScale /\ a = ArgMax(q[state]))}

\* ------------------------------------------------------------------ learn

\* the number of passes of the inner loops (training, then evaluation) a run is
\* followed for
MaxPasses == 3

\* the number of learn calls the trainings of a run may add up to; the Q-values
\* of the model are exact for that many updates
MaxUpdates == MaxPasses - 1

RPerC == RScale \div CScale
QPerR == (alpha[2] * gamma[2]) ^ MaxUpdates
QScale == RScale * QPerR

\* an update that adds the next state's maximum undiscounted (gamma taken as 1)
LearnValueUndiscounted(q, state, action, reward, next_state) ==
    LET old_value == q[state][action]
        next_max == RowMax(q[next_state])
    IN  old_value
        + (alpha[1] * (gamma[2] * reward * QPerR + gamma[2] * next_max - gamma[2] * old_value))
          \div (alpha[2] * gamma[2])

\* an update whose maximum is taken over the row of the current state
LearnValueOwnRow(q, state, action, reward, next_state) ==
    LET old_value == q[state][action]
        next_max == RowMax(q[state])
    IN  old_value
        + (alpha[1] * (gamma[2] * reward * QPerR + gamma[1] * next_max - gamma[2] * old_value))
          \div (alpha[2] * gamma[2])

\* an update that looks up the next state's value of the same action instead of
\* the maximum of its row
LearnValueSameAction(q, state, action, reward, next_state) ==
    LET old_value == q[state][action]
        next_max == q[next_state][action]
    IN  old_value
        + (alpha[1] * (gamma[2] * reward * QPerR + gamma[1] * next_max - gamma[2] * old_value))
          \div (alpha[2] * gamma[2])

\* new_value = old_value + alpha * (reward + gamma * next_max - old_value), the
\* reward in 1/RScale, the Q-values in 1/QScale
LearnValue(q, state, action, reward, next_state) ==
    LET old_value == q[state][action]
        next_max == RowMax(q[next_state])
    IN  old_value
        + (alpha[1] * (gamma[2] * reward * QPerR + gamma[1] * next_max - gamma[2] * old_value))
          \div (alpha[2] * gamma[2])

LearnTable(q, state, action, reward, next_state) ==
    [q EXCEPT ![state][action] = LearnValue(q, state, action, reward, next_state)]

\* a decay without the min_epsilon floor
LearnEpsilonNoFloor(eps, n) ==
    IF n % DecayInterval = 0
    THEN (eps * epsilon_decay[1]) \div epsilon_decay[2]
    ELSE eps

\* a decay on every update
LearnEpsilonEveryCall(eps, n) ==
    Max(min_epsilon, (eps * epsilon_decay[1]) \div epsilon_decay[2])

\* if self.total_updates % 500 == 0: epsilon = max(min_epsilon, epsilon * decay);
\* n is total_updates after the increment
LearnEpsilon(eps, n) ==
    IF n % DecayInterval = 0
    THEN Max(min_epsilon, (eps * epsilon_decay[1]) \div epsilon_decay[2])
    ELSE eps

LearnArgs(state, action, reward, next_state) ==
    [state |-> state, action |-> action, reward |-> reward, next_state |-> next_state]

NoLearn == LearnArgs(0, 0, 0, 0)

\* FairnessAwareAgent.calculate_fairness_reward, in 1/RScale
calculate_fairness_reward(male_comfort, female_comfort) ==
    LET overall_comfort == (RPerC * (male_comfort + female_comfort)) \div 2
        fairness_penalty == Abs(male_comfort - female_comfort)
    IN  overall_comfort - (fairness_weight[1] * RPerC * fairness_penalty) \div fairness_weight[2]

\* a dispatch that hands the blended reward to every agent
TrainRewardBlended(ag, r) == r.reward

\* train_agent's "agent-specific learning": the reward handed to learn
TrainReward(ag, r) ==
    IF ag.agent_type = "Fairness"
    THEN calculate_fairness_reward(r.male_comfort, r.female_comfort)
    ELSE IF ag.agent_type = "Biased"
    THEN IF ag.trained_gender = "male"
         THEN RPerC * r.male_comfort
         ELSE RPerC * r.female_comfort
    ELSE r.reward

\* --------------------------------------------------------- inputs and bounds

\* ASHRAEEnvironment(male_ratio=...) of run_full_experiment, in tenths
Ratios == {5, 10}
\* male_ratio of the evaluation environment
EvalRatios == {5}
\* samples of np.random.uniform(18.0, 28.0)
ResetSamples == {220, 270}
\* samples of np.random.normal(0, 0.1), in 1/TScale degree
StepNoise == {0, 1}

\* the number of passes of the inner loop an evaluation of an agent that has
\* learnt n times may add up to
MaxEvalSteps(n) == Max(1, MaxPasses - n)
\* state_bins of the agents that are trained and evaluated
TrainBins == 3

AgentKinds ==
    { [agent_type |-> "Hybrid", trained_gender |-> "none", state_bins |-> TrainBins],
      [agent_type |-> "Fairness", trained_gender |-> "none", state_bins |-> TrainBins],
      [agent_type |-> "Biased", trained_gender |-> "male", state_bins |-> TrainBins],
      [agent_type |-> "Biased", trained_gender |-> "female", state_bins |-> TrainBins] }

NoLoop == [episodes |-> 0, steps |-> 0, episode |-> 0, step |-> 0, state |-> 0]
NoAcc == [episode_reward |-> 0, episode_male_comfort |-> 0,
          episode_female_comfort |-> 0, episode_temps |-> <<>>]
NoMetrics == [rewards |-> <<>>, male_comforts |-> <<>>, female_comforts |-> <<>>,
              fairness_gaps |-> <<>>, temperatures |-> <<>>]
NoAllMetrics == [temperatures |-> <<>>, male_comforts |-> <<>>, female_comforts |-> <<>>,
                 male_tsvs |-> <<>>, female_tsvs |-> <<>>,
                 male_preferences |-> <<>>, female_preferences |-> <<>>]
NoProbe == [temperature |-> 0, lo |-> DefaultMin, hi |-> DefaultMax,
            bins |-> TrainBins, state |-> 0]

RECURSIVE SumSeq(_)
SumSeq(q) == IF q = <<>> THEN 0 ELSE Head(q) + SumSeq(Tail(q))

\* ------------------------------- the summary of evaluate_agent_comprehensive

\* the 0.6 of "c > 0.6", as a comfort score
SatisfiedAbove == (6 * CScale) \div 10

\* flags that also count a sample equal to 0.6
SatisfiedFlagsInclusive(comforts) ==
    [i \in 1 .. Len(comforts) |-> IF comforts[i] >= SatisfiedAbove THEN 1 ELSE 0]

\* [c > 0.6 for c in comforts]: np.mean takes True as 1 and False as 0
SatisfiedFlags(comforts) ==
    [i \in 1 .. Len(comforts) |-> IF comforts[i] > SatisfiedAbove THEN 1 ELSE 0]

\* np.mean of a list, as the fraction <<sum, length>>
Mean(list) == <<SumSeq(list), Len(list)>>

\* lines 294-302 of the results dict; the two lists have the same length, so
\* the difference of their means is the difference of their sums over it.  The
\* standard deviation and the accuracy entries are not followed.
Summary(m) ==
    [samples |-> Len(m.temperatures),
     avg_temperature |-> Mean(m.temperatures),
     avg_male_comfort |-> Mean(m.male_comforts),
     avg_female_comfort |-> Mean(m.female_comforts),
     fairness_gap |-> <<Abs(SumSeq(m.male_comforts) - SumSeq(m.female_comforts)),
                        Len(m.male_comforts)>>,
     male_satisfaction_rate |-> Mean(SatisfiedFlags(m.male_comforts)),
     female_satisfaction_rate |-> Mean(SatisfiedFlags(m.female_comforts)),
     overall_satisfaction_rate |->
         Mean(SatisfiedFlags(m.male_comforts \o m.female_comforts))]

NoResults == [samples |-> 0]
NoComfortCall == [fn |-> "none"]
NoReport == [call |-> "none"]
NoRng == [np |-> <<>>, py |-> <<>>]

\* ------------------------------------------- train_agent and evaluation

\* QLearningAgent.__init__ (and the subclasses' __init__)
InitAgent(kind) ==
    /\ agent = kind
    /\ epsilon = InitialEpsilon
    /\ total_updates = 0
    /\ q_table = ZeroTable(kind.state_bins)
    /\ last_learn = NoLearn

Init ==
    /\ \E kind \in AgentKinds : InitAgent(kind)
    /\ env = NewEnvironment(5, DefaultMin, DefaultMax)
    /\ ret = NoReturn
    /\ pc = "idle"
    /\ loop = NoLoop
    /\ original_epsilon = 0
    /\ acc = NoAcc
    /\ metrics = NoMetrics
    /\ all_metrics = NoAllMetrics
    /\ probe = NoProbe
    /\ results = NoResults
    /\ comfort_call = NoComfortCall
    /\ report = NoReport
    /\ rng = NoRng
    /\ experiment = <<>>

\* the caller builds an environment and calls train_agent(agent, env, episodes,
\* steps_per_episode): lines 207-212.  What an earlier call returned is dropped.
TrainStart ==
    /\ pc = "idle"
    /\ \E r \in Ratios, n \in 1 .. MaxUpdates, s \in 1 .. MaxUpdates :
        /\ total_updates + n * s <= MaxUpdates
        /\ env' = NewEnvironment(r, DefaultMin, DefaultMax)
        /\ loop' = [episodes |-> n, steps |-> s, episode |-> 0, step |-> 0, state |-> 0]
    /\ metrics' = NoMetrics
    /\ acc' = NoAcc
    /\ pc' = "train_episode"
    /\ ret' = NoReturn
    /\ original_epsilon' = 0
    /\ all_metrics' = NoAllMetrics
    /\ results' = NoResults
    /\ comfort_call' = NoComfortCall
    /\ UNCHANGED <<agent, epsilon, total_updates, q_table, last_learn, probe,
                   report, rng, experiment>>

\* lines 214-221: the head of an episode, reset drawing `sample`
TrainResetWith(sample) ==
    /\ pc = "train_episode"
    /\ loop.episode < loop.episodes
    /\ env' = EnvAfterReset(env, sample)
    /\ ret' = ResetReturn(env, sample)
    /\ loop' = [loop EXCEPT !.state = Discretize(sample, agent.state_bins), !.step = 0]
    /\ acc' = NoAcc
    /\ pc' = "train_step"
    /\ UNCHANGED <<agent, epsilon, total_updates, q_table, last_learn,
                   original_epsilon, metrics, all_metrics, probe,
                   results, comfort_call, report, experiment>>

\* the head of an episode, for any sample the generator may give
TrainReset ==
    /\ \E sample \in ResetSamples : TrainResetWith(sample)
    /\ UNCHANGED rng

\* lines 223-244: one pass of the inner loop, choose_action returning `action`
\* and step drawing `noise` for the temperature and noise_m, noise_f for the votes
TrainStepWith(action, noise, noise_m, noise_f) ==
    /\ pc = "train_step"
    /\ loop.step < loop.steps
    /\ LET r == StepReturn(env, action, noise, noise_m, noise_f)
           next_state == Discretize(r.temperature, agent.state_bins)
           reward == TrainReward(agent, r)
       IN  /\ env' = EnvAfterStep(env, action, noise)
           /\ ret' = r
           /\ q_table' = LearnTable(q_table, loop.state, action, reward, next_state)
           /\ total_updates' = total_updates + 1
           /\ epsilon' = LearnEpsilon(epsilon, total_updates + 1)
           /\ last_learn' = LearnArgs(loop.state, action, reward, next_state)
           /\ acc' = [episode_reward |-> acc.episode_reward + r.reward,
                      episode_male_comfort |-> acc.episode_male_comfort + r.male_comfort,
                      episode_female_comfort |-> acc.episode_female_comfort + r.female_comfort,
                      episode_temps |-> Append(acc.episode_temps, r.temperature)]
           /\ loop' = [loop EXCEPT !.state = next_state, !.step = loop.step + 1]
    /\ UNCHANGED <<agent, pc, original_epsilon, metrics, all_metrics, probe,
                   results, comfort_call, report, experiment>>

\* one pass of the inner loop, for any action and noise the generators may
\* give (the vote noise being 0)
TrainStep ==
    /\ \E action \in choose_action(q_table, epsilon, loop.state), noise \in StepNoise :
        TrainStepWith(action, noise, 0, 0)
    /\ UNCHANGED rng

\* an episode end that stores the signed difference as the fairness gap
TrainEpisodeEndSignedGap ==
    /\ pc = "train_step"
    /\ loop.step = loop.steps
    /\ metrics' =
        [rewards |-> Append(metrics.rewards, acc.episode_reward),
         male_comforts |-> Append(metrics.male_comforts, acc.episode_male_comfort),
         female_comforts |-> Append(metrics.female_comforts, acc.episode_female_comfort),
         fairness_gaps |-> Append(metrics.fairness_gaps,
                              acc.episode_male_comfort - acc.episode_female_comfort),
         temperatures |-> Append(metrics.temperatures, SumSeq(acc.episode_temps))]
    /\ loop' = [loop EXCEPT !.episode = loop.episode + 1]
    /\ pc' = "train_episode"
    /\ UNCHANGED <<env, ret, agent, epsilon, total_updates, q_table, last_learn,
                   original_epsilon, acc, all_metrics, probe,
                   results, comfort_call, report, rng, experiment>>

\* lines 246-251: the metrics of the episode; each entry is the numerator of a
\* fraction whose denominator is steps_per_episode
TrainEpisodeEnd ==
    /\ pc = "train_step"
    /\ loop.step = loop.steps
    /\ metrics' =
        [rewards |-> Append(metrics.rewards, acc.episode_reward),
         male_comforts |-> Append(metrics.male_comforts, acc.episode_male_comfort),
         female_comforts |-> Append(metrics.female_comforts, acc.episode_female_comfort),
         fairness_gaps |-> Append(metrics.fairness_gaps,
                              Abs(acc.episode_male_comfort - acc.episode_female_comfort)),
         temperatures |-> Append(metrics.temperatures, SumSeq(acc.episode_temps))]
    /\ loop' = [loop EXCEPT !.episode = loop.episode + 1]
    /\ pc' = "train_episode"
    /\ UNCHANGED <<env, ret, agent, epsilon, total_updates, q_table, last_learn,
                   original_epsilon, acc, all_metrics, probe,
                   results, comfort_call, report, rng, experiment>>

\* lines 253-257
TrainReturn ==
    /\ pc = "train_episode"
    /\ loop.episode = loop.episodes
    /\ pc' = "idle"
    /\ UNCHANGED <<env, ret, agent, epsilon, total_updates, q_table, last_learn, loop,
                   original_epsilon, acc, metrics, all_metrics, probe,
                   results, comfort_call, report, rng, experiment>>

\* an entry that leaves agent.epsilon as it is
EvalStartKeepsEpsilon ==
    /\ pc = "idle"
    /\ \E r \in EvalRatios, n \in 1 .. MaxPasses, s \in 1 .. MaxPasses :
        /\ n * s <= MaxEvalSteps(total_updates)
        /\ env' = NewEnvironment(r, DefaultMin, DefaultMax)
        /\ loop' = [episodes |-> n, steps |-> s, episode |-> 0, step |-> 0, state |-> 0]
    /\ original_epsilon' = epsilon
    /\ all_metrics' = NoAllMetrics
    /\ pc' = "eval_episode"
    /\ ret' = NoReturn
    /\ acc' = NoAcc
    /\ metrics' = NoMetrics
    /\ results' = NoResults
    /\ UNCHANGED <<agent, epsilon, total_updates, q_table, last_learn, probe,
                   comfort_call, report, rng, experiment>>

\* evaluate_agent_comprehensive(agent, male_ratio, episodes, steps_per_episode):
\* lines 262-270
EvalStart ==
    /\ pc = "idle"
    /\ \E r \in EvalRatios, n \in 1 .. MaxPasses, s \in 1 .. MaxPasses :
        /\ n * s <= MaxEvalSteps(total_updates)
        /\ env' = NewEnvironment(r, DefaultMin, DefaultMax)
        /\ loop' = [episodes |-> n, steps |-> s, episode |-> 0, step |-> 0, state |-> 0]
    /\ original_epsilon' = epsilon
    /\ epsilon' = 0
    /\ all_metrics' = NoAllMetrics
    /\ pc' = "eval_episode"
    /\ ret' = NoReturn
    /\ acc' = NoAcc
    /\ metrics' = NoMetrics
    /\ results' = NoResults
    /\ UNCHANGED <<agent, total_updates, q_table, last_learn, probe,
                   comfort_call, report, rng, experiment>>

\* lines 272-274
EvalReset ==
    /\ pc = "eval_episode"
    /\ loop.episode < loop.episodes
    /\ \E sample \in ResetSamples :
        /\ env' = EnvAfterReset(env, sample)
        /\ ret' = ResetReturn(env, sample)
        /\ loop' = [loop EXCEPT !.state = Discretize(sample, agent.state_bins), !.step = 0]
    /\ pc' = "eval_step"
    /\ UNCHANGED <<agent, epsilon, total_updates, q_table, last_learn,
                   original_epsilon, acc, metrics, all_metrics, probe,
                   results, comfort_call, report, rng, experiment>>

\* lines 276-289: one pass of the inner loop; the pass that ends the inner loop
\* also ends the episode
EvalStep ==
    /\ pc = "eval_step"
    /\ loop.step < loop.steps
    /\ \E action \in choose_action(q_table, epsilon, loop.state), noise \in StepNoise :
        LET r == StepReturn(env, action, noise, 0, 0)
            next_state == Discretize(r.temperature, agent.state_bins)
        IN  /\ env' = EnvAfterStep(env, action, noise)
            /\ ret' = r
            /\ all_metrics' =
                [temperatures |-> Append(all_metrics.temperatures, r.temperature),
                 male_comforts |-> Append(all_metrics.male_comforts, r.male_comfort),
                 female_comforts |-> Append(all_metrics.female_comforts, r.female_comfort),
                 male_tsvs |-> Append(all_metrics.male_tsvs, r.male_tsv),
                 female_tsvs |-> Append(all_metrics.female_tsvs, r.female_tsv),
                 male_preferences |-> Append(all_metrics.male_preferences, r.male_preference),
                 female_preferences |-> Append(all_metrics.female_preferences,
                                               r.female_preference)]
            /\ loop' = IF loop.step + 1 = loop.steps
                       THEN [loop EXCEPT !.state = next_state, !.step = loop.step + 1,
                                         !.episode = loop.episode + 1]
                       ELSE [loop EXCEPT !.state = next_state, !.step = loop.step + 1]
            /\ pc' = IF loop.step + 1 = loop.steps THEN "eval_episode" ELSE "eval_step"
    /\ UNCHANGED <<agent, epsilon, total_updates, q_table, last_learn, original_epsilon,
                   acc, metrics, probe,
                   results, comfort_call, report, rng, experiment>>

\* lines 291-321: the loop has ended, epsilon is put back and the summary of
\* the recorded samples is returned
EvalReturn ==
    /\ pc = "eval_episode"
    /\ loop.episode = loop.episodes
    /\ epsilon' = original_epsilon
    /\ results' = Summary(all_metrics)
    /\ pc' = "idle"
    /\ UNCHANGED <<env, ret, agent, total_updates, q_table, last_learn, loop,
                   original_epsilon, acc, metrics, all_metrics, probe,
                   comfort_call, report, rng, experiment>>

\* a call made in the loop of lines 272-289 raises: nothing in
\* evaluate_agent_comprehensive catches it, so the function is left at once and
\* line 291 is not executed
EvalRaise ==
    /\ pc \in {"eval_episode", "eval_step"}
    /\ ~(pc = "eval_episode" /\ loop.episode = loop.episodes)
    /\ pc' = "eval_failed"
    /\ UNCHANGED <<env, ret, agent, epsilon, total_updates, q_table, last_learn, loop,
                   original_epsilon, acc, metrics, all_metrics, probe,
                   results, comfort_call, report, rng, experiment>>

Next ==
    \/ TrainStart
    \/ TrainReset
    \/ TrainStep
    \/ TrainEpisodeEnd
    \/ TrainReturn
    \/ EvalStart
    \/ EvalReset
    \/ EvalStep
    \/ EvalReturn
    \/ EvalRaise

Spec == Init /\ [][Next]_vars

\* ------------------------------------------- the environment, called directly

EnvRatios == {3}
\* ASHRAEEnvironment(min_temp=..., max_temp=...): the defaults and two others
EnvBounds == {<<160, 320>>, <<200, 260>>, <<240, 320>>}
EnvResetSamples == {180, 210, 240, 278}
EnvNoise == {-2, 0, 2}
\* samples of np.random.normal(0, 0.2), in 1/VScale
EnvVoteNoise == {-300, 300}

InitEnv ==
    /\ \E r \in EnvRatios, b \in EnvBounds : env = NewEnvironment(r, b[1], b[2])
    /\ InitAgent(CHOOSE kind \in AgentKinds : kind.agent_type = "Hybrid")
    /\ ret = NoReturn
    /\ pc = "idle"
    /\ loop = NoLoop
    /\ original_epsilon = 0
    /\ acc = NoAcc
    /\ metrics = NoMetrics
    /\ all_metrics = NoAllMetrics
    /\ probe = NoProbe
    /\ results = NoResults
    /\ comfort_call = NoComfortCall
    /\ report = NoReport
    /\ rng = NoRng
    /\ experiment = <<>>

\* env.reset()
EnvReset ==
    /\ \E sample \in EnvResetSamples :
        /\ env' = EnvAfterReset(env, sample)
        /\ ret' = ResetReturn(env, sample)
    /\ UNCHANGED <<agent, epsilon, total_updates, q_table, last_learn, pc, loop,
                   original_epsilon, acc, metrics, all_metrics, probe,
                   results, comfort_call, report, rng, experiment>>

\* env.step(action_idx)
EnvStep ==
    /\ \E action \in Actions, noise \in EnvNoise,
          noise_m \in EnvVoteNoise, noise_f \in EnvVoteNoise :
        /\ env' = EnvAfterStep(env, action, noise)
        /\ ret' = StepReturn(env, action, noise, noise_m, noise_f)
    /\ UNCHANGED <<agent, epsilon, total_updates, q_table, last_learn, pc, loop,
                   original_epsilon, acc, metrics, all_metrics, probe,
                   results, comfort_call, report, rng, experiment>>

\* integers that are not indices of action_space
OutOfRangeIndices == {-7, -6, -5, -1, 5, 6}

\* env.step(action_idx) with an integer outside 0 .. 4: line 92 indexes the
\* list before anything is drawn or assigned
EnvStepOutOfRange ==
    /\ \E action_idx \in OutOfRangeIndices :
        IF PyIndexable(Len(action_space), action_idx)
        THEN \E noise \in EnvNoise, noise_m \in EnvVoteNoise, noise_f \in EnvVoteNoise :
                /\ env' = EnvAfterStep(env, action_idx, noise)
                /\ ret' = StepReturn(env, action_idx, noise, noise_m, noise_f)
        ELSE /\ env' = env
             /\ ret' = StepRaised(env, action_idx)
    /\ UNCHANGED <<agent, epsilon, total_updates, q_table, last_learn, pc, loop,
                   original_epsilon, acc, metrics, all_metrics, probe,
                   results, comfort_call, report, rng, experiment>>

NextEnv == EnvReset \/ EnvStep \/ EnvStepOutOfRange

SpecEnv == InitEnv /\ [][NextEnv]_vars

\* ------------------------------------------- discretize_state, called directly

ProbeTemps == 150 .. 330
ProbeBounds == {<<160, 320>>, <<200, 260>>}
ProbeBins == {1, 3, 100}

InitDisc ==
    /\ env = NewEnvironment(5, DefaultMin, DefaultMax)
    /\ InitAgent(CHOOSE kind \in AgentKinds : kind.agent_type = "Hybrid")
    /\ ret = NoReturn
    /\ pc = "idle"
    /\ loop = NoLoop
    /\ original_epsilon = 0
    /\ acc = NoAcc
    /\ metrics = NoMetrics
    /\ all_metrics = NoAllMetrics
    /\ probe = NoProbe
    /\ results = NoResults
    /\ comfort_call = NoComfortCall
    /\ report = NoReport
    /\ rng = NoRng
    /\ experiment = <<>>

\* agent.discretize_state(temperature, min_temp, max_temp) of an agent of bins states
DiscretizeCall ==
    /\ \E t \in ProbeTemps, b \in ProbeBounds, bins \in ProbeBins :
        probe' = [temperature |-> t, lo |-> b[1], hi |-> b[2], bins |-> bins,
                  state |-> discretize_state(t, b[1], b[2], bins)]
    /\ UNCHANGED <<env, ret, agent, epsilon, total_updates, q_table, last_learn, pc, loop,
                   original_epsilon, acc, metrics, all_metrics,
                   results, comfort_call, report, rng, experiment>>

NextDisc == DiscretizeCall

SpecDisc == InitDisc /\ [][NextDisc]_vars

\* ------------------------------------ learn called directly, and evaluation

\* the number of learn calls followed
MaxLearnCalls == 3001
\* rewards of the direct calls: the table stays exact over any number of them
CallRewards == {0}

InitDecay ==
    /\ InitAgent(CHOOSE kind \in AgentKinds : kind.agent_type = "Hybrid")
    /\ env = NewEnvironment(5, DefaultMin, DefaultMax)
    /\ ret = NoReturn
    /\ pc = "idle"
    /\ loop = NoLoop
    /\ original_epsilon = 0
    /\ acc = NoAcc
    /\ metrics = NoMetrics
    /\ all_metrics = NoAllMetrics
    /\ probe = NoProbe
    /\ results = NoResults
    /\ comfort_call = NoComfortCall
    /\ report = NoReport
    /\ rng = NoRng
    /\ experiment = <<>>

\* agent.learn(state, action, reward, next_state), called by a caller that has
\* dropped what an earlier evaluation returned; the caller may have seen an
\* evaluation of the agent fail
LearnCall ==
    /\ pc \in {"idle", "eval_failed"}
    /\ total_updates < MaxLearnCalls
    /\ \E reward \in CallRewards :
        LET state == 0
            action == total_updates % action_space_size
            next_state == agent.state_bins - 1
        IN  /\ q_table' = LearnTable(q_table, state, action, reward, next_state)
            /\ last_learn' = LearnArgs(state, action, reward, next_state)
    /\ total_updates' = total_updates + 1
    /\ epsilon' = LearnEpsilon(epsilon, total_updates + 1)
    /\ env' = NewEnvironment(5, DefaultMin, DefaultMax)
    /\ ret' = NoReturn
    /\ loop' = NoLoop
    /\ original_epsilon' = 0
    /\ all_metrics' = NoAllMetrics
    /\ results' = NoResults
    /\ UNCHANGED <<agent, pc, acc, metrics, probe,
                   comfort_call, report, rng, experiment>>

NextDecay ==
    \/ LearnCall
    \/ EvalStart
    \/ EvalReset
    \/ EvalStep
    \/ EvalReturn
    \/ EvalRaise

SpecDecay == InitDecay /\ [][NextDecay]_vars

\* ------------------------------- learn(s, a, r, s) repeated on one entry

\* the number of repetitions followed
MaxConvCalls == 6
\* a reward whose updates stay exact for that many repetitions, in 1/RScale
ConvReward == 2 ^ (2 * MaxConvCalls)
ConvRewards == {-ConvReward, 0, ConvReward}

InitConv ==
    /\ InitAgent(CHOOSE kind \in AgentKinds : kind.agent_type = "Hybrid")
    /\ env = NewEnvironment(5, DefaultMin, DefaultMax)
    /\ ret = NoReturn
    /\ pc = "idle"
    /\ loop = NoLoop
    /\ original_epsilon = 0
    /\ acc = NoAcc
    /\ metrics = NoMetrics
    /\ all_metrics = NoAllMetrics
    /\ probe = NoProbe
    /\ results = NoResults
    /\ comfort_call = NoComfortCall
    /\ report = NoReport
    /\ rng = NoRng
    /\ experiment = <<>>

\* agent.learn(s, a, r, s): the first call picks s, a and r, every later call
\* repeats them
LearnRepeat ==
    /\ pc = "idle"
    /\ total_updates < MaxConvCalls
    /\ \E state \in States(agent.state_bins), action \in Actions, reward \in ConvRewards :
        /\ total_updates > 0 =>
              /\ state = last_learn.state
              /\ action = last_learn.action
              /\ reward = last_learn.reward
        /\ q_table' = LearnTable(q_table, state, action, reward, state)
        /\ last_learn' = LearnArgs(state, action, reward, state)
    /\ total_updates' = total_updates + 1
    /\ epsilon' = LearnEpsilon(epsilon, total_updates + 1)
    /\ UNCHANGED <<env, ret, agent, pc, loop, original_epsilon, acc, metrics, all_metrics,
                   probe, results, comfort_call, report, rng, experiment>>

NextConv == LearnRepeat

SpecConv == InitConv /\ [][NextConv]_vars

\* ------------------------------- the relative fairness improvement

\* x / y * 100 on numpy floats.  A zero divisor raises nothing: numpy warns
\* ("divide by zero encountered", or "invalid value encountered" for 0 / 0) and
\* the quotient is an infinity or nan, which the multiplication keeps.
FloatPercent(x, y) ==
    IF y # 0 THEN [kind |-> "finite", num |-> 100 * x, den |-> y, warning |-> "none"]
    ELSE IF x > 0 THEN [kind |-> "inf", num |-> 0, den |-> 0, warning |-> "divide by zero"]
    ELSE IF x < 0 THEN [kind |-> "-inf", num |-> 0, den |-> 0, warning |-> "divide by zero"]
    ELSE [kind |-> "nan", num |-> 0, den |-> 0, warning |-> "invalid value"]

\* (biased_gap - other_gap) / biased_gap * 100: lines 525, 615, 616 (and 694, 704
\* on the gaps averaged over the ratios)
Improvement(biased_gap, other_gap) == FloatPercent(biased_gap - other_gap, biased_gap)

\* ['eval']['fairness_gap'] of the three methods at one ratio, in 1/CScale
GapValues == {0, 72, 560, 1280, 1800}

\* results of run_full_experiment, as handed to the two functions that analyse
\* them
InitReport ==
    /\ InitAgent(CHOOSE kind \in AgentKinds : kind.agent_type = "Hybrid")
    /\ env = NewEnvironment(5, DefaultMin, DefaultMax)
    /\ ret = NoReturn
    /\ pc = "idle"
    /\ loop = NoLoop
    /\ original_epsilon = 0
    /\ acc = NoAcc
    /\ metrics = NoMetrics
    /\ all_metrics = NoAllMetrics
    /\ probe = NoProbe
    /\ results = NoResults
    /\ comfort_call = NoComfortCall
    /\ \E b \in GapValues, h \in GapValues, f \in GapValues :
        report = [call |-> "none", biased_gap |-> b, hybrid_gap |-> h, fairness_gap |-> f]
    /\ rng = NoRng
    /\ experiment = <<>>

\* create_comprehensive_visualizations, lines 521-526: what is appended to
\* bias_impact for the ratio
Visualize ==
    /\ report.call = "none"
    /\ report' = [call |-> "create_comprehensive_visualizations",
                  biased_gap |-> report.biased_gap,
                  hybrid_gap |-> report.hybrid_gap,
                  fairness_gap |-> report.fairness_gap,
                  improvements |->
                      <<Improvement(report.biased_gap, report.fairness_gap)>>]
    /\ UNCHANGED <<env, ret, agent, epsilon, total_updates, q_table, last_learn, pc, loop,
                   original_epsilon, acc, metrics, all_metrics, probe,
                   results, comfort_call, rng, experiment>>

\* print_comprehensive_analysis, lines 610-619: what is appended to
\* avg_improvements['hybrid'] and avg_improvements['fairness'] for the ratio
PrintAnalysis ==
    /\ report.call = "none"
    /\ report' = [call |-> "print_comprehensive_analysis",
                  biased_gap |-> report.biased_gap,
                  hybrid_gap |-> report.hybrid_gap,
                  fairness_gap |-> report.fairness_gap,
                  improvements |->
                      <<Improvement(report.biased_gap, report.hybrid_gap),
                        Improvement(report.biased_gap, report.fairness_gap)>>]
    /\ UNCHANGED <<env, ret, agent, epsilon, total_updates, q_table, last_learn, pc, loop,
                   original_epsilon, acc, metrics, all_metrics, probe,
                   results, comfort_call, rng, experiment>>

NextReport == Visualize \/ PrintAnalysis

SpecReport == InitReport /\ [][NextReport]_vars

\* ------------------------------- trainings of one seeded process

\* main seeds the two module-level generators once (lines 748-749); every
\* np.random.* and random.* call of the process then takes the next output of
\* its generator.  rng.np and rng.py are the outputs still to come.  An output
\* is one of RawDraws, and each call maps it to a value of its own range.
RawDraws == {0, 1}

\* np.random.uniform(18.0, 28.0)
UniformDraw(raw) == IF raw = 0 THEN 220 ELSE 270
\* np.random.normal(0, 0.1), in 1/TScale degree
NormalDraw(raw) == raw
\* np.random.normal(0, 0.2), in 1/VScale
VoteNoiseDraw(raw) == IF raw = 0 THEN -300 ELSE 300
\* random.random(), in 1/EScale: 0.0, or the largest value below 1.0
RandomDraw(raw) == IF raw = 0 THEN 0 ELSE EScale - 1
\* random.randint(0, action_space_size - 1)
RandintDraw(raw) == raw * (action_space_size - 1)

Drop(list, n) == SubSeq(list, n + 1, Len(list))

\* choose_action on the generator outputs py: the action, and how many outputs
\* it took
choose_action_drawn(q, eps, state, py) ==
    IF RandomDraw(py[1]) < eps
    THEN [action |-> RandintDraw(py[2]), used |-> 2]
    ELSE [action |-> ArgMax(q[state]), used |-> 1]

\* the number of trainings of the process that are followed
MaxRuns == 2
\* outputs one training of one episode of one step takes at most: uniform and
\* three normals from np.random, random() and randint() from random
NpPerRun == 4
PyPerRun == 2

\* (male_ratio, agent) of a training: the biased and the hybrid training of
\* run_full_experiment at ratio 0.5
RunConfigs ==
    { [male_ratio |-> 10, kind |->
          [agent_type |-> "Biased", trained_gender |-> "male", state_bins |-> TrainBins]],
      [male_ratio |-> 5, kind |->
          [agent_type |-> "Hybrid", trained_gender |-> "none", state_bins |-> TrainBins]] }

\* main after seeding: the outputs of the two generators are fixed, whatever
\* they are
InitSeeded ==
    /\ InitAgent(CHOOSE kind \in AgentKinds : kind.agent_type = "Biased"
                                              /\ kind.trained_gender = "male")
    /\ env = NewEnvironment(10, DefaultMin, DefaultMax)
    /\ ret = NoReturn
    /\ pc = "idle"
    /\ loop = NoLoop
    /\ original_epsilon = 0
    /\ acc = NoAcc
    /\ metrics = NoMetrics
    /\ all_metrics = NoAllMetrics
    /\ probe = NoProbe
    /\ results = NoResults
    /\ comfort_call = NoComfortCall
    /\ report = NoReport
    /\ \E np \in [1 .. MaxRuns * NpPerRun -> RawDraws],
          py \in [1 .. MaxRuns * PyPerRun -> RawDraws] :
        rng = [np |-> np, py |-> py]
    /\ experiment = <<>>

\* run_full_experiment, lines 558-562 (575-577): a new environment, a new agent,
\* and train_agent is entered, for one episode of one step
RunStart ==
    /\ pc = "idle"
    /\ loop = NoLoop
    /\ Len(experiment) < MaxRuns
    /\ \E config \in RunConfigs :
        /\ env' = NewEnvironment(config.male_ratio, DefaultMin, DefaultMax)
        /\ agent' = config.kind
        /\ q_table' = ZeroTable(config.kind.state_bins)
    /\ epsilon' = InitialEpsilon
    /\ total_updates' = 0
    /\ last_learn' = NoLearn
    /\ loop' = [episodes |-> 1, steps |-> 1, episode |-> 0, step |-> 0, state |-> 0]
    /\ metrics' = NoMetrics
    /\ acc' = NoAcc
    /\ ret' = NoReturn
    /\ pc' = "train_episode"
    /\ UNCHANGED <<original_epsilon, all_metrics, probe, results, comfort_call, report,
                   rng, experiment>>

\* the head of an episode: reset takes one output of np.random
SeededTrainReset ==
    /\ TrainResetWith(UniformDraw(rng.np[1]))
    /\ rng' = [rng EXCEPT !.np = Drop(rng.np, 1)]

\* one pass: choose_action takes one or two outputs of random, step takes three
\* of np.random (the temperature noise, then the two vote noises)
SeededTrainStep ==
    /\ LET c == choose_action_drawn(q_table, epsilon, loop.state, rng.py)
       IN  /\ TrainStepWith(c.action, NormalDraw(rng.np[1]),
                            VoteNoiseDraw(rng.np[2]), VoteNoiseDraw(rng.np[3]))
           /\ rng' = [np |-> Drop(rng.np, 3), py |-> Drop(rng.py, c.used)]

\* line 566 (580): train_agent has returned the agent and its metrics, and
\* they are kept with the configuration of the training
RunRecord ==
    /\ pc = "idle"
    /\ loop # NoLoop
    /\ experiment' = Append(experiment,
                            [male_ratio |-> env.male_ratio, kind |-> agent,
                             q_table |-> q_table, metrics |-> metrics])
    /\ loop' = NoLoop
    /\ UNCHANGED <<env, ret, agent, epsilon, total_updates, q_table, last_learn, pc,
                   original_epsilon, acc, metrics, all_metrics, probe,
                   results, comfort_call, report, rng>>

NextSeeded ==
    \/ RunStart
    \/ SeededTrainReset
    \/ SeededTrainStep
    \/ TrainEpisodeEnd
    \/ TrainReturn
    \/ RunRecord

SpecSeeded == InitSeeded /\ [][NextSeeded]_vars

\* ------------------------------------------- group labels of any spelling

\* strings handed over as gender or trained_gender
Labels == {"male", "female", "other", "Male"}
ComfortFunctions == {"score", "vote", "preference"}
ComfortTemps == {220, 240, 250}

\* a call of a function of ASHRAEThermalComfortModel: none of the three has a
\* statement that raises, whatever the string
ComfortReturn(fn, temperature, gender) ==
    [fn |-> fn, temperature |-> temperature, gender |-> gender, outcome |-> "returned",
     value |-> IF fn = "score" THEN calculate_thermal_comfort_score(temperature, gender)
               ELSE IF fn = "vote"
               THEN calculate_thermal_sensation_vote(temperature, gender, 0)
               ELSE calculate_thermal_preference(temperature, gender)]

\* BiasedAgent(trained_gender=label, state_bins=...)
LabelAgentKinds ==
    { [agent_type |-> "Biased", trained_gender |-> g, state_bins |-> TrainBins] : g \in Labels }

InitLabel ==
    /\ \E kind \in LabelAgentKinds : InitAgent(kind)
    /\ env = NewEnvironment(5, DefaultMin, DefaultMax)
    /\ ret = NoReturn
    /\ pc = "idle"
    /\ loop = NoLoop
    /\ original_epsilon = 0
    /\ acc = NoAcc
    /\ metrics = NoMetrics
    /\ all_metrics = NoAllMetrics
    /\ probe = NoProbe
    /\ results = NoResults
    /\ comfort_call = NoComfortCall
    /\ report = NoReport
    /\ rng = NoRng
    /\ experiment = <<>>

\* comfort_model.calculate_...(temperature, gender), called directly
ComfortCall ==
    /\ pc = "idle"
    /\ \E fn \in ComfortFunctions, t \in ComfortTemps, g \in Labels :
        comfort_call' = ComfortReturn(fn, t, g)
    /\ UNCHANGED <<env, ret, agent, epsilon, total_updates, q_table, last_learn, pc, loop,
                   original_epsilon, acc, metrics, all_metrics, probe,
                   results, report, rng, experiment>>

NextLabel ==
    \/ ComfortCall
    \/ TrainStart
    \/ TrainReset
    \/ TrainStep
    \/ TrainEpisodeEnd
    \/ TrainReturn

SpecLabel == InitLabel /\ [][NextLabel]_vars

\* ------------------------------- the summary, from recorded samples on

\* the number of samples an evaluation has recorded
MaxSamples == 3
\* temperatures the steps of an evaluation returned
SummaryTemps == {205, 220, 226, 227, 235, 240}

\* what the passes of lines 276-289 append for the temperatures they got from
\* step (the vote noise being 0)
Recorded(temps) ==
    LET n == Len(temps)
    IN  [temperatures |-> temps,
         male_comforts |-> [i \in 1 .. n |-> calculate_thermal_comfort_score(temps[i], "male")],
         female_comforts |->
             [i \in 1 .. n |-> calculate_thermal_comfort_score(temps[i], "female")],
         male_tsvs |-> [i \in 1 .. n |-> calculate_thermal_sensation_vote(temps[i], "male", 0)],
         female_tsvs |->
             [i \in 1 .. n |-> calculate_thermal_sensation_vote(temps[i], "female", 0)],
         male_preferences |-> [i \in 1 .. n |-> calculate_thermal_preference(temps[i], "male")],
         female_preferences |->
             [i \in 1 .. n |-> calculate_thermal_preference(temps[i], "female")]]

\* evaluate_agent_comprehensive(agent, episodes=1, steps_per_episode=n) at the
\* end of its loop
InitSummary ==
    /\ agent = CHOOSE kind \in AgentKinds : kind.agent_type = "Hybrid"
    /\ total_updates = 0
    /\ q_table = ZeroTable(TrainBins)
    /\ last_learn = NoLearn
    /\ \E n \in 1 .. MaxSamples : \E temps \in [1 .. n -> SummaryTemps] :
        /\ all_metrics = Recorded(temps)
        /\ env = [NewEnvironment(5, DefaultMin, DefaultMax) EXCEPT !.current_temp = temps[n]]
        /\ loop = [episodes |-> 1, steps |-> n, episode |-> 1, step |-> n,
                   state |-> Discretize(temps[n], TrainBins)]
    /\ epsilon = 0
    /\ original_epsilon = InitialEpsilon
    /\ ret = NoReturn
    /\ pc = "eval_episode"
    /\ acc = NoAcc
    /\ metrics = NoMetrics
    /\ probe = NoProbe
    /\ results = NoResults
    /\ comfort_call = NoComfortCall
    /\ report = NoReport
    /\ rng = NoRng
    /\ experiment = <<>>

NextSummary == EvalReturn

SpecSummary == InitSummary /\ [][NextSummary]_vars

\* ------------------------------ learn called with rewards of a known range

\* the number of direct learn calls followed
MaxBoundCalls == 5
\* a reward whose updates stay exact for that many calls, in 1/RScale
BoundUnit == (alpha[2] * gamma[2]) ^ MaxBoundCalls
\* the range [lo, hi] of the rewards of the direct calls, lo <= 0 <= hi, and
\* the rewards passed: both ends of the range
BoundLo == -BoundUnit
BoundHi == 2 * BoundUnit
BoundRewards == {BoundLo, BoundHi}
\* the entries the direct calls write and the rows they read
BoundStates == {0, 1}
BoundActions == {0, action_space_size - 1}

\* a freshly built agent of any variant, its table all zeros (line 139)
InitBound ==
    /\ \E kind \in AgentKinds : InitAgent(kind)
    /\ env = NewEnvironment(10, DefaultMin, DefaultMax)
    /\ ret = NoReturn
    /\ pc = "idle"
    /\ loop = NoLoop
    /\ original_epsilon = 0
    /\ acc = NoAcc
    /\ metrics = NoMetrics
    /\ all_metrics = NoAllMetrics
    /\ probe = NoProbe
    /\ results = NoResults
    /\ comfort_call = NoComfortCall
    /\ report = NoReport
    /\ rng = NoRng
    /\ experiment = <<>>

\* agent.learn(state, action, reward, next_state) called by any caller on an
\* agent of the unbiased variants, the reward anywhere in [BoundLo, BoundHi]
LearnBounded ==
    /\ pc = "idle"
    /\ agent.agent_type # "Biased"
    /\ total_updates < MaxBoundCalls
    /\ \E state \in BoundStates, action \in BoundActions, reward \in BoundRewards,
          next_state \in BoundStates :
        /\ q_table' = LearnTable(q_table, state, action, reward, next_state)
        /\ last_learn' = LearnArgs(state, action, reward, next_state)
    /\ total_updates' = total_updates + 1
    /\ epsilon' = LearnEpsilon(epsilon, total_updates + 1)
    /\ UNCHANGED <<env, ret, agent, pc, loop, original_epsilon, acc, metrics, all_metrics,
                   probe, results, comfort_call, report, rng, experiment>>

\* train_agent called on a BiasedAgent: every learn call of the loop passes the
\* comfort score of the trained group (lines 232-236)
BiasedTrainStart ==
    /\ agent.agent_type = "Biased"
    /\ TrainStart

NextBound ==
    \/ LearnBounded
    \/ BiasedTrainStart
    \/ TrainReset
    \/ TrainStep
    \/ TrainEpisodeEnd
    \/ TrainReturn

SpecBound == InitBound /\ [][NextBound]_vars

\* ------------------------------------------------------------------ claims

InEvaluation == pc \in {"eval_episode", "eval_step"}
EvaluationReturned == pc = "idle" /\ all_metrics.temperatures # <<>>
EvaluationFailed == pc = "eval_failed"

\* C1: when evaluate_agent_comprehensive has ended, by returning or by a failure
\* raised in its loop, agent.epsilon equals the epsilon the agent had before the
\* call.
EpsilonRestoredAfterEvaluation ==
    (EvaluationReturned \/ EvaluationFailed) => epsilon = original_epsilon

\* C2: every pass of train_agent's inner loop performs exactly one learn call,
\* and the reward of that call is decided by the agent variant alone: the
\* fairness reward (m + f)/2 - fairness_weight * |m - f| for a
\* FairnessAwareAgent, the comfort score of the trained group for a BiasedAgent,
\* the environment's blended reward for any other agent.  m and f are the
\* comfort scores the step returned.
TrainingRewardByVariant ==
    [][ (pc = "train_step" /\ loop'.step = loop.step + 1) =>
          LET m == ret'.male_comfort
              f == ret'.female_comfort
              used == last_learn'.reward
          IN  /\ total_updates' = total_updates + 1
              /\ \A st \in States(agent.state_bins), a \in Actions :
                    (st # last_learn'.state \/ a # last_learn'.action)
                        => q_table'[st][a] = q_table[st][a]
              /\ agent.agent_type = "Fairness" =>
                    2 * fairness_weight[2] * used
                        = RPerC * (fairness_weight[2] * (m + f)
                                   - 2 * fairness_weight[1] * Abs(m - f))
              /\ agent.agent_type = "Biased" =>
                    used = RPerC * calculate_thermal_comfort_score(ret'.temperature,
                                                                   agent.trained_gender)
              /\ agent.agent_type \notin {"Fairness", "Biased"} => used = ret'.reward
      ]_vars

\* a fairness-aware agent has learnt from a step whose two comfort scores differ,
\* with a reward that is not the blended one
FairnessRewardUsed ==
    /\ pc = "train_step"
    /\ agent.agent_type = "Fairness"
    /\ ret.call = "step"
    /\ ret.male_comfort # ret.female_comfort
    /\ last_learn.reward # ret.reward
    /\ total_updates = 2

\* C3: the comfort score a step returns is 1.0 for a group when the temperature
\* is that group's optimum, and at 22.0 it is 1.0 for 'male' and 0.36 for
\* 'female'.
ComfortAtOptimum ==
    ret.call = "step" =>
        /\ ret.temperature = Optimal("male") => ret.male_comfort = CScale
        /\ ret.temperature = Optimal("female") => ret.female_comfort = CScale
        /\ ret.temperature = 220 =>
              /\ ret.male_comfort = CScale
              /\ 100 * ret.female_comfort = 36 * CScale

StepReturnedAtMaleOptimum ==
    /\ ret.call = "step"
    /\ ret.temperature = 220
    /\ ret.female_comfort = 720

Groups == {"male", "female"}
CompareTemps == 100 .. 400
ReturnedComfort(gender) ==
    IF gender = "male" THEN ret.male_comfort ELSE ret.female_comfort

\* C4: for each group the comfort score does not increase when the distance of
\* the temperature from the group's optimum grows, and it is in [0, 1]: the
\* score a step returned is compared with the score of every other temperature.
ComfortNonIncreasingInDeviation ==
    ret.call = "step" =>
        \A gender \in Groups :
            /\ 0 <= ReturnedComfort(gender) /\ ReturnedComfort(gender) <= CScale
            /\ \A t2 \in CompareTemps :
                LET d1 == Abs(ret.temperature - Optimal(gender))
                    d2 == Abs(t2 - Optimal(gender))
                    c2 == calculate_thermal_comfort_score(t2, gender)
                IN  /\ 0 <= c2 /\ c2 <= CScale
                    /\ d1 <= d2 => ReturnedComfort(gender) >= c2
                    /\ d2 <= d1 => c2 >= ReturnedComfort(gender)

\* a step returned the temperature 26.0: deviation 4.0 for 'male' and 2.0 for
\* 'female', both on a bracket boundary
StepReturnedOnBracketBoundary ==
    /\ ret.call = "step"
    /\ ret.temperature = 260
    /\ ret.male_comfort = 200
    /\ ret.female_comfort = 720

\* C5: the temperature a step returns and stores is in [min_temp, max_temp],
\* whatever the temperature before the step, and the comfort scores, sensation
\* votes and preference signals returned are those of the stored temperature.
StepClampsAndObservesClamped ==
    ret.call = "step" =>
        /\ ret.temperature = env.current_temp
        /\ env.min_temp <= ret.temperature /\ ret.temperature <= env.max_temp
        /\ ret.male_comfort = calculate_thermal_comfort_score(env.current_temp, "male")
        /\ ret.female_comfort = calculate_thermal_comfort_score(env.current_temp, "female")
        /\ ret.male_tsv = calculate_thermal_sensation_vote(env.current_temp, "male", ret.noise_m)
        /\ ret.female_tsv
              = calculate_thermal_sensation_vote(env.current_temp, "female", ret.noise_f)
        /\ ret.male_preference = calculate_thermal_preference(env.current_temp, "male")
        /\ ret.female_preference = calculate_thermal_preference(env.current_temp, "female")

\* a step taken from a temperature below min_temp has been clamped to min_temp
StepFromOutsideClamped ==
    /\ ret.call = "step"
    /\ ret.before < env.min_temp - 10
    /\ env.current_temp = env.min_temp

\* C6: current_temp is in [min_temp, max_temp] in every reachable state of an
\* environment, whatever its bounds.
TemperatureWithinBounds ==
    env.min_temp <= env.current_temp /\ env.current_temp <= env.max_temp

\* C7: learn(s, a, r, s') moves q_table[s, a] from its old value toward
\* r + gamma * max(q_table[s', .]) by the factor alpha, the maximum being that
\* of the table before the call, and changes no other entry.
LearnMovesTowardTarget ==
    [][ total_updates' # total_updates =>
          LET c == last_learn'
              old == q_table[c.state][c.action]
              new == q_table'[c.state][c.action]
              next_max == RowMax(q_table[c.next_state])
          IN  /\ alpha[2] * gamma[2] * (new - old)
                    = alpha[1] * (gamma[2] * c.reward * QPerR + gamma[1] * next_max
                                  - gamma[2] * old)
              /\ \A st \in States(agent.state_bins), a \in Actions :
                    (st # c.state \/ a # c.action) => q_table'[st][a] = q_table[st][a]
      ]_vars

\* a second learn call whose next state has a row that differs from the row of
\* its state
LearntAcrossStates ==
    /\ total_updates = 2
    /\ last_learn.state # last_learn.next_state
    /\ RowMax(q_table[last_learn.state]) # RowMax(q_table[last_learn.next_state])
    /\ q_table[last_learn.state][last_learn.action] > 0

\* C8 as stated: min_epsilon <= epsilon <= the constructed epsilon in every
\* reachable state of an agent, evaluation included.
EpsilonAlwaysInRange ==
    min_epsilon <= epsilon /\ epsilon <= InitialEpsilon

\* C8 as amended: epsilon is 0 while evaluate_agent_comprehensive runs;
\* min_epsilon <= epsilon <= the constructed epsilon after construction, after
\* every learn call and after an evaluation that returned; once an evaluation
\* has failed epsilon is 0 until a learn call decays it, and in the range from
\* then on.
EpsilonInRangeOutsideEvaluation ==
    /\ InEvaluation => epsilon = 0
    /\ EvaluationFailed =>
          \/ epsilon = 0
          \/ /\ min_epsilon <= epsilon /\ epsilon <= InitialEpsilon
             /\ total_updates >= DecayInterval
    /\ (~InEvaluation /\ ~EvaluationFailed) =>
          (min_epsilon <= epsilon /\ epsilon <= InitialEpsilon)

\* an agent whose epsilon has decayed to the floor has been evaluated, and the
\* evaluation has returned
EvaluatedAfterDecayToFloor ==
    /\ EvaluationReturned
    /\ total_updates = 6 * DecayInterval
    /\ epsilon = min_epsilon
    /\ original_epsilon = min_epsilon

\* C9: a learn call adds exactly 1 to total_updates; it changes epsilon only
\* when total_updates becomes a multiple of 500, to
\* max(min_epsilon, epsilon * epsilon_decay); no sequence of learn calls takes
\* epsilon below min_epsilon.
DecayOnlyEveryInterval ==
    [][ total_updates' # total_updates =>
          /\ total_updates' = total_updates + 1
          /\ epsilon >= min_epsilon => epsilon' >= min_epsilon
          /\ IF total_updates' % 500 = 0
             THEN /\ epsilon' >= min_epsilon
                  /\ epsilon' * epsilon_decay[2] >= epsilon * epsilon_decay[1]
                  /\ \/ epsilon' = min_epsilon
                     \/ epsilon' * epsilon_decay[2] = epsilon * epsilon_decay[1]
             ELSE epsilon' = epsilon
      ]_vars

\* the sixth decay (0.3 / 64 < 0.01) has been cut off at min_epsilon
DecayReachedFloor ==
    /\ pc = "idle"
    /\ total_updates = 3000
    /\ epsilon = min_epsilon
    /\ all_metrics.temperatures = <<>>

\* C10: discretize_state is monotonic non-decreasing in the temperature, its
\* result is in [0, state_bins - 1] for every temperature, min_temp gives 0 and
\* max_temp gives state_bins - 1: the result of a call is compared with that of
\* every other temperature.
DiscretizeMonotoneInRange ==
    probe.temperature \in ProbeTemps =>
        /\ 0 <= probe.state /\ probe.state <= probe.bins - 1
        /\ probe.temperature = probe.lo => probe.state = 0
        /\ probe.temperature = probe.hi => probe.state = probe.bins - 1
        /\ \A t2 \in ProbeTemps :
            LET s2 == discretize_state(t2, probe.lo, probe.hi, probe.bins)
            IN  /\ t2 <= probe.temperature => s2 <= probe.state
                /\ t2 >= probe.temperature => s2 >= probe.state

\* a temperature above max_temp has been given the last index of 100 bins
DiscretizedAboveMax ==
    /\ probe.temperature > probe.hi
    /\ probe.bins = 100
    /\ probe.state = 99

\* C11: discretize_state returns the integer nearest to
\* (t - min_temp) / (max_temp - min_temp) * (state_bins - 1), t being the
\* clamped temperature.
DiscretizeRoundsToNearest ==
    probe.temperature \in ProbeTemps =>
        LET t == Clip(probe.temperature, probe.lo, probe.hi)
            scaled == (t - probe.lo) * (probe.bins - 1)
            width == probe.hi - probe.lo
        IN  2 * Abs(probe.state * width - scaled) <= width

\* C13: a step with an integer outside 0 .. 4 fails with an out-of-range error
\* and leaves the temperature as it was, for negative integers as for integers
\* that are too large.
OutOfRangeIndexFails ==
    (ret.call \in {"step", "IndexError"} /\ ret.action_idx \notin Actions) =>
        /\ ret.call = "IndexError"
        /\ env.current_temp = ret.before

\* the number of samples of a list that are strictly greater than 0.6
Satisfied(comforts) ==
    Cardinality({i \in 1 .. Len(comforts) : 10 * comforts[i] > 6 * CScale})

\* C12: in the summary an evaluation returned, each group's satisfaction rate
\* is the number of that group's recorded samples strictly greater than 0.6
\* over the number of its recorded samples, a sample equal to 0.6 not being
\* counted, and the overall rate is the same fraction over both groups' samples.
SatisfactionRateIsStrictFraction ==
    results.samples > 0 =>
        LET m == all_metrics.male_comforts
            f == all_metrics.female_comforts
        IN  /\ results.male_satisfaction_rate = <<Satisfied(m), Len(m)>>
            /\ results.female_satisfaction_rate = <<Satisfied(f), Len(f)>>
            /\ results.overall_satisfaction_rate
                   = <<Satisfied(m) + Satisfied(f), Len(m) + Len(f)>>
            /\ Len(m) = results.samples /\ Len(f) = results.samples

\* a summary of three samples, one of them a male comfort of exactly 0.6 that
\* is not counted and one a female comfort just above 0.6 that is
SummaryWithSampleOnThreshold ==
    /\ results.samples = 3
    /\ \E i \in 1 .. 3 : 10 * all_metrics.male_comforts[i] = 6 * CScale
    /\ \E i \in 1 .. 3 : all_metrics.female_comforts[i] = 1224
    /\ results.male_satisfaction_rate = <<1, 3>>
    /\ results.female_satisfaction_rate = <<2, 3>>
    /\ results.overall_satisfaction_rate = <<3, 6>>

\* C14: a group label other than 'male' or 'female' is rejected: a function of
\* the comfort model called with such a label fails instead of returning a
\* value, and a BiasedAgent whose trained_gender is such a label never learns.
InvalidLabelRejected ==
    /\ (comfort_call.fn # "none" /\ comfort_call.gender \notin Groups)
            => comfort_call.outcome # "returned"
    /\ (agent.agent_type = "Biased" /\ agent.trained_gender \notin Groups)
            => total_updates = 0

\* r / (1 - gamma) as a Q-value
DiscountedReward(reward) == (reward * QPerR * gamma[2]) \div (gamma[2] - gamma[1])

\* the update of entry (s, a) leaves the value v unchanged and the call made
\* has reduced the distance of the entry to v
UpdateApproaches(v, c, old, new) ==
    /\ LearnValue([q_table EXCEPT ![c.state][c.action] = v],
                  c.state, c.action, c.reward, c.state) = v
    /\ old # v => Abs(v - new) < Abs(v - old)
    /\ old = v => new = v

\* C15 as stated: for every constant reward r, positive, zero or negative,
\* repeating learn(s, a, r, s) from an all-zero table, r / (1 - gamma) is the
\* value the update leaves unchanged and each update reduces the distance of
\* q_table[s, a] to it.
ConvergesToDiscountedReward ==
    [][ total_updates' # total_updates =>
          LET c == last_learn'
          IN  UpdateApproaches(DiscountedReward(c.reward), c,
                               q_table[c.state][c.action], q_table'[c.state][c.action])
      ]_vars

\* C15 as amended: for r >= 0 the entry converges to r / (1 - gamma), each
\* update leaving the fraction 1 - alpha * (1 - gamma) of the distance; for
\* r < 0 the maximum of row s stays the 0 of the other actions, and the entry
\* converges to r, each update leaving the fraction 1 - alpha of the distance.
ConvergesToDiscountedOrPlainReward ==
    [][ total_updates' # total_updates =>
          LET c == last_learn'
              old == q_table[c.state][c.action]
              new == q_table'[c.state][c.action]
              limit == IF c.reward >= 0 THEN DiscountedReward(c.reward)
                       ELSE c.reward * QPerR
          IN  /\ UpdateApproaches(limit, c, old, new)
              /\ c.reward >= 0 =>
                    alpha[2] * gamma[2] * (limit - new)
                        = (alpha[2] * gamma[2] - alpha[1] * (gamma[2] - gamma[1]))
                          * (limit - old)
              /\ c.reward < 0 =>
                    alpha[2] * (limit - new) = (alpha[2] - alpha[1]) * (limit - old)
      ]_vars

\* a negative reward has been repeated MaxConvCalls times: the entry is
\* r * (1 - (1 - alpha)^n), between r and 0 and nowhere near r / (1 - gamma)
RepeatedNegativeReward ==
    /\ total_updates = MaxConvCalls
    /\ last_learn.reward < 0
    /\ LET q == q_table[last_learn.state][last_learn.action]
           r == last_learn.reward * QPerR
       IN  /\ r < q /\ q < 0
           /\ (q - r) * alpha[2] ^ MaxConvCalls = (0 - r) * (alpha[2] - alpha[1]) ^ MaxConvCalls

\* C16: when the biased agent's fairness gap is 0, no relative improvement is
\* computed by dividing by it, and every improvement is reported as
\* undefined (NaN), not as a number or an infinity.
ZeroBaselineGuarded ==
    (report.call # "none" /\ report.biased_gap = 0) =>
        \A i \in 1 .. Len(report.improvements) :
            /\ report.improvements[i].warning = "none"
            /\ report.improvements[i].kind = "nan"

\* a pass of an inner loop has been made: choose_action, then step
PassMade ==
    /\ pc \in {"train_step", "eval_step"}
    /\ loop'.step = loop.step + 1
    /\ ret'.call = "step"

\* C17: while evaluate_agent_comprehensive runs, agent.epsilon is 0 at every
\* choose_action call, the action of every pass has the largest value of the
\* current state's row, and neither q_table nor total_updates changes, from
\* the entry of the call to its end.
EvaluationIsGreedyAndFrozen ==
    [][ /\ (InEvaluation \/ InEvaluation') =>
              (q_table' = q_table /\ total_updates' = total_updates)
        /\ InEvaluation => epsilon = 0
        /\ (InEvaluation /\ PassMade) =>
              q_table[loop.state][ret'.action_idx] = RowMax(q_table[loop.state])
      ]_vars

\* an agent that has learnt and still explores has been evaluated over two
\* passes, and the last pass took an action other than the first one
TrainedAgentEvaluatedGreedily ==
    /\ InEvaluation
    /\ total_updates > 0
    /\ original_epsilon > 0
    /\ Len(all_metrics.temperatures) = 2
    /\ ret.call = "step"
    /\ ret.action_idx # 0

\* C18: choose_action returns an index in 0 .. action_space_size - 1, and with
\* epsilon 0 the smallest index whose value is the maximum of the state's row.
ChooseActionFirstMaximum ==
    [][ PassMade =>
          LET a == ret'.action_idx
              row == q_table[loop.state]
          IN  /\ a \in 0 .. (action_space_size - 1)
              /\ epsilon = 0 =>
                    /\ \A b \in 0 .. (action_space_size - 1) : row[b] <= row[a]
                    /\ \A b \in 0 .. (a - 1) : row[b] < row[a]
      ]_vars

\* an evaluation pass of an agent that has learnt met a row whose maximum is
\* held by two actions, and took the first of them, which is not action 0
GreedyTieTakesFirst ==
    /\ InEvaluation
    /\ ret.call = "step"
    /\ total_updates > 0
    /\ LET row == q_table[Discretize(ret.before, agent.state_bins)]
       IN  /\ ret.action_idx > 0
           /\ \E b \in Actions : b > ret.action_idx /\ row[b] = row[ret.action_idx]

TrainingRunning == pc \in {"train_episode", "train_step"}
TrainingReturned ==
    /\ pc = "idle"
    /\ loop.episodes > 0
    /\ Len(metrics.rewards) > 0

MetricsLists(m) ==
    <<m.rewards, m.male_comforts, m.female_comforts, m.fairness_gaps, m.temperatures>>

\* C19: train_agent's five metrics lists get one entry per finished episode, in
\* episode order, an entry never changes once appended, the lists returned have
\* exactly N entries, and fairness_gaps[i] = |male_comforts[i] - female_comforts[i]|.
MetricsOnePerEpisode ==
    [][ /\ TrainingRunning =>
              /\ \A k \in 1 .. 5 :
                    /\ Len(MetricsLists(metrics)[k]) = loop.episode
                    /\ Len(MetricsLists(metrics')[k]) = loop'.episode
                    /\ \A i \in 1 .. loop.episode :
                          MetricsLists(metrics')[k][i] = MetricsLists(metrics)[k][i]
              /\ loop'.episode \in {loop.episode, loop.episode + 1}
        /\ TrainingReturned' =>
              \A k \in 1 .. 5 : Len(MetricsLists(metrics')[k]) = loop'.episodes
        /\ \A i \in 1 .. Len(metrics'.fairness_gaps) :
              metrics'.fairness_gaps[i]
                  = Abs(metrics'.male_comforts[i] - metrics'.female_comforts[i])
      ]_vars

\* a training of two episodes has returned; in its first episode the female
\* comfort was the higher one
TwoEpisodesReturned ==
    /\ TrainingReturned
    /\ loop.episodes = 2
    /\ Len(metrics.fairness_gaps) = 2
    /\ metrics.male_comforts[1] < metrics.female_comforts[1]
    /\ metrics.fairness_gaps[1] # metrics.fairness_gaps[2]

\* C20: the outcome of a training, its Q-table and its metrics, is determined
\* by its configuration and does not depend on the trainings the process made
\* before it: two trainings of one process that have the same configuration
\* have the same outcome.
RunsDependOnConfigurationOnly ==
    \A i \in 1 .. Len(experiment), j \in 1 .. Len(experiment) :
        (experiment[i].male_ratio = experiment[j].male_ratio
            /\ experiment[i].kind = experiment[j].kind)
        => (experiment[i].q_table = experiment[j].q_table
            /\ experiment[i].metrics = experiment[j].metrics)

\* the range the rewards of the agent's learn calls lie in, in 1/RScale: the
\* comfort scores 0 .. 1 for a BiasedAgent, [BoundLo, BoundHi] for the others
RewardRange ==
    IF agent.agent_type = "Biased" THEN <<0, RScale>> ELSE <<BoundLo, BoundHi>>

\* C21: an agent's table starting at all zeros, and every reward passed to
\* learn lying in [lo, hi] with lo <= 0 <= hi, every entry of q_table lies in
\* [lo / (1 - gamma), hi / (1 - gamma)] after any sequence of learn calls; the
\* rewards of a BiasedAgent are comfort scores in [0, 1], and its entries lie
\* in [0, 1 / (1 - gamma)].
QValuesWithinDiscountedRange ==
    /\ RewardRange[1] <= 0 /\ 0 <= RewardRange[2]
    /\ total_updates > 0 =>
          RewardRange[1] <= last_learn.reward /\ last_learn.reward <= RewardRange[2]
    /\ \A s \in States(agent.state_bins), a \in Actions :
          /\ DiscountedReward(RewardRange[1]) <= q_table[s][a]
          /\ q_table[s][a] <= DiscountedReward(RewardRange[2])

\* MaxBoundCalls calls have been made with rewards of both signs: one entry is
\* above the largest reward hi itself (but below hi / (1 - gamma)), another is
\* negative
LearntAboveLargestReward ==
    /\ agent.agent_type # "Biased"
    /\ total_updates = MaxBoundCalls
    /\ \E s \in BoundStates, a \in BoundActions : q_table[s][a] > BoundHi * QPerR
    /\ \E s \in BoundStates, a \in BoundActions : q_table[s][a] < 0

====
